---- MODULE Spec2Model ----
(***************************************************************************)
(* A model of the file-storage gateway's encrypted-transport layer:        *)
(* app/utils/crypto.py (AESCrypto), app/utils/encryption_middleware.py,    *)
(* app/utils/form_parser.py and the handlers of app/routes/files.py.       *)
(*                                                                         *)
(* Python values are tagged records [t |-> tag, v |-> payload]; a str is   *)
(* a sequence of code points, bytes a sequence of 0..255, a dict a         *)
(* sequence of <<key, value>> pairs in insertion order.  A call's outcome  *)
(* is a record with a field exc: "none" (it returned val) or the name of   *)
(* the exception it raised.                                                *)
(*                                                                         *)
(* key_hash  crypto.key_hash, read from AES_KEY_HASH at start-up           *)
(* proc      the server process: "starting", "up" or "crashed"             *)
(* store     the objects of the bucket, [id, is_public, data]              *)
(* last      the call or request served last and its result                *)
(* wire      the envelopes encrypt_payload has made and that their         *)
(*           receivers may present, each with the number of times          *)
(*           decrypt_payload has returned its plaintext                    *)
(* pending   the upload_direct coroutines suspended at an await            *)
(***************************************************************************)
EXTENDS Integers, Sequences, FiniteSets, TLC

VARIABLES key_hash, proc, store, last, wire, pending

vars == <<key_hash, proc, store, last, wire, pending>>

----------------------------------------------------------------------------
(* Bounds of the model (not program constants).                            *)

\* how many distinct byte deltas a tampering client tries on each position
MaxDelta == 2
\* how many of the sample nonces os.urandom may return
MaxNonce == 2
\* how many values str(uuid.uuid4()) ranges over
MaxUuid == 1
\* how many objects the store holds before uploads stop
MaxObjects == 2
\* how many envelopes a session makes
MaxSent == 2
\* how many acceptances of one envelope are counted
MaxAccepts == 2
\* how many upload_direct requests are in flight at a time
MaxPending == 2

----------------------------------------------------------------------------
(* Python values                                                           *)

PyNone == [t |-> "none", v |-> 0]
PyBool(b) == [t |-> "bool", v |-> b]
PyInt(n) == [t |-> "int", v |-> n]
PyStr(s) == [t |-> "str", v |-> s]
PyBytes(b) == [t |-> "bytes", v |-> b]
PyList(l) == [t |-> "list", v |-> l]
PyDict(items) == [t |-> "dict", v |-> items]

IsDict(x) == x.t = "dict"
IsStr(x) == x.t = "str"
IsBytes(x) == x.t = "bytes"
\* `x is True`
IsTrue(x) == x.t = "bool" /\ x.v

\* Python truthiness: `if x:` / `not x`
Truthy(x) ==
  CASE x.t = "none" -> FALSE
    [] x.t = "bool" -> x.v
    [] x.t = "int" -> x.v # 0
    [] x.t = "upload" -> TRUE
    [] OTHER -> Len(x.v) > 0

\* the outcome of a call
Ok(v) == [exc |-> "none", val |-> v]
Raise(e, m) == [exc |-> e, msg |-> m]

RECURSIVE DictIndex(_, _, _)
\* position of key k in the item sequence, 0 when absent
DictIndex(items, k, i) ==
  IF i > Len(items) THEN 0
  ELSE IF items[i][1] = k THEN i
  ELSE DictIndex(items, k, i + 1)

\* `k in d`
DictHas(d, k) == DictIndex(d.v, k, 1) > 0

\* d.get(k, dflt)
DictGet(d, k, dflt) ==
  LET i == DictIndex(d.v, k, 1) IN IF i = 0 THEN dflt ELSE d.v[i][2]

\* d[k] = val : an existing key keeps its position
DictSet(d, k, val) ==
  LET i == DictIndex(d.v, k, 1)
  IN IF i = 0 THEN PyDict(Append(d.v, <<k, val>>))
     ELSE PyDict([d.v EXCEPT ![i] = <<k, val>>])

\* dict == dict : the same keys with equal values, in any order
DictEq(a, b) ==
  /\ IsDict(a) /\ IsDict(b)
  /\ Len(a.v) = Len(b.v)
  /\ \A i \in 1..Len(a.v) : DictHas(b, a.v[i][1]) /\ DictGet(b, a.v[i][1], PyNone) = a.v[i][2]

Rep(c, n) == [i \in 1..n |-> c]

----------------------------------------------------------------------------
(* str.encode() / bytes.decode() : UTF-8, for code points below 2048       *)

RECURSIVE Utf8Encode(_, _, _)
\* the bytes of s[lo..hi] (the range is halved, for a shallow recursion)
Utf8Encode(s, lo, hi) ==
  IF lo > hi THEN <<>>
  ELSE IF lo = hi
    THEN (IF s[lo] < 128 THEN <<s[lo]>>
          ELSE <<192 + (s[lo] \div 64), 128 + (s[lo] % 64)>>)
  ELSE LET mid == (lo + hi) \div 2
       IN Utf8Encode(s, lo, mid) \o Utf8Encode(s, mid + 1, hi)

\* s.encode()
StrEncode(s) == Utf8Encode(s, 1, Len(s))

IsContinuation(x) == x >= 128 /\ x < 192
IsLead2(x) == x >= 194 /\ x < 224

\* whether b is well-formed UTF-8 of one- and two-byte characters
Utf8Valid(b) ==
  \A i \in 1..Len(b) :
    \/ b[i] < 128
    \/ IsLead2(b[i]) /\ i + 1 <= Len(b) /\ IsContinuation(b[i + 1])
    \/ IsContinuation(b[i]) /\ i > 1 /\ IsLead2(b[i - 1])

\* the code points of well-formed b
Utf8Decode(b) ==
  LET idx == [i \in 1..Len(b) |-> i]
      starts == SelectSeq(idx, LAMBDA i : ~IsContinuation(b[i]))
  IN [k \in 1..Len(starts) |->
        LET i == starts[k]
        IN IF b[i] < 128 THEN b[i] ELSE (b[i] - 192) * 64 + (b[i + 1] - 128)]

\* b.decode() : Ok(code points) or UnicodeDecodeError
BytesDecode(b) ==
  IF Utf8Valid(b) THEN Ok(Utf8Decode(b))
  ELSE Raise("UnicodeDecodeError", "invalid utf-8")

----------------------------------------------------------------------------
(* bytes.fromhex and hashlib.sha256                                        *)

\* the value of a hexadecimal digit, -1 for any other character
HexVal(c) ==
  IF c >= 48 /\ c <= 57 THEN c - 48
  ELSE IF c >= 97 /\ c <= 102 THEN c - 87
  ELSE IF c >= 65 /\ c <= 70 THEN c - 55
  ELSE -1

\* ASCII whitespace, which bytes.fromhex skips between bytes
IsSpace(c) == c \in {32, 9, 10, 11, 12, 13}

RECURSIVE FromHexAt(_, _)
\* the bytes of s[i..]; <<-1>> appended where a pair of hex digits is
\* expected and not found
FromHexAt(s, i) ==
  IF i > Len(s) THEN <<>>
  ELSE IF IsSpace(s[i]) THEN FromHexAt(s, i + 1)
  ELSE IF HexVal(s[i]) >= 0 /\ i + 1 <= Len(s) /\ HexVal(s[i + 1]) >= 0
       THEN <<HexVal(s[i]) * 16 + HexVal(s[i + 1])>> \o FromHexAt(s, i + 2)
  ELSE <<-1>>

\* bytes.fromhex(s)
BytesFromHex(s) ==
  LET b == FromHexAt(s, 1)
  IN IF Len(b) > 0 /\ b[Len(b)] = -1
     THEN Raise("ValueError", "non-hexadecimal number found in fromhex() arg")
     ELSE Ok(b)

\* b[:n]
Take(b, n) == IF Len(b) <= n THEN b ELSE SubSeq(b, 1, n)

\* b[n:]
Drop(b, n) == IF Len(b) <= n THEN <<>> ELSE SubSeq(b, n + 1, Len(b))

RECURSIVE WeightedSum(_, _, _, _)
\* the sum over i in lo..hi of (i + j) * (b[i] + 1)
WeightedSum(b, lo, hi, j) ==
  IF lo > hi THEN 0
  ELSE IF lo = hi THEN (lo + j) * (b[lo] + 1)
  ELSE LET mid == (lo + hi) \div 2
       IN WeightedSum(b, lo, mid, j) + WeightedSum(b, mid + 1, hi, j)

DigestSize == 32

\* hashlib.sha256(b).digest() : a fixed function from bytes to 32 bytes
\* (a stand-in for the compression function, which no claim looks into)
Sha256(b) ==
  [j \in 1..DigestSize |-> (WeightedSum(b, 1, Len(b), j) + 7 * j + 31 * Len(b) + 99) % 256]

----------------------------------------------------------------------------
(* base64.b64encode / base64.b64decode                                     *)

PadChar == 61

\* the character of a 6-bit value
B64Char(n) ==
  IF n < 26 THEN 65 + n
  ELSE IF n < 52 THEN 97 + (n - 26)
  ELSE IF n < 62 THEN 48 + (n - 52)
  ELSE IF n = 62 THEN 43
  ELSE 47

\* the 6-bit value of a character, -1 outside the alphabet
B64Index(c) ==
  IF c >= 65 /\ c <= 90 THEN c - 65
  ELSE IF c >= 97 /\ c <= 122 THEN c - 97 + 26
  ELSE IF c >= 48 /\ c <= 57 THEN c - 48 + 52
  ELSE IF c = 43 THEN 62
  ELSE IF c = 47 THEN 63
  ELSE -1

\* base64.b64encode(b).decode() : character p of the output comes from
\* the three bytes of group (p - 1) \div 4
b64encode(b) ==
  LET n == Len(b)
      At(i) == IF i <= n THEN b[i] ELSE 0
  IN [p \in 1..(4 * ((n + 2) \div 3)) |->
        LET g == 3 * ((p - 1) \div 4)
            r == (p - 1) % 4
        IN IF r = 0 THEN B64Char(At(g + 1) \div 4)
           ELSE IF r = 1 THEN B64Char((At(g + 1) % 4) * 16 + (At(g + 2) \div 16))
           ELSE IF r = 2
             THEN (IF g + 2 > n THEN PadChar
                   ELSE B64Char((At(g + 2) % 16) * 4 + (At(g + 3) \div 64)))
           ELSE (IF g + 3 > n THEN PadChar ELSE B64Char(At(g + 3) % 64))]

\* binascii.a2b_base64 without strict mode.  Characters outside the alphabet
\* are skipped.  A pad read after 4q+3 data characters, or a second pad in a
\* row after 4q+2, ends the input; any other pad is skipped.  Data left in an
\* open quad at the end raises binascii.Error.
A2bBase64(s) ==
  LET f == SelectSeq(s, LAMBDA c : c = PadChar \/ B64Index(c) >= 0)
      pad == {i \in 1..Len(f) : f[i] = PadChar}
      DataBefore(i) == i - 1 - Cardinality({q \in pad : q < i})
      stops == {i \in pad : \/ DataBefore(i) % 4 = 3
                            \/ DataBefore(i) % 4 = 2 /\ (i - 1) \in pad}
      d == SelectSeq(f, LAMBDA c : c # PadChar)
      k == IF stops = {} THEN Len(d)
           ELSE DataBefore(CHOOSE i \in stops : \A j \in stops : i <= j)
      nbytes == 3 * (k \div 4) + (IF k % 4 = 0 THEN 0 ELSE (k % 4) - 1)
      V(i) == B64Index(d[i])
  IN IF stops = {} /\ k % 4 # 0
     THEN Raise("binascii.Error", "Incorrect padding")
     ELSE Ok([m \in 1..nbytes |->
                LET g == 4 * ((m - 1) \div 3)
                    r == (m - 1) % 3
                IN IF r = 0 THEN V(g + 1) * 4 + (V(g + 2) \div 16)
                   ELSE IF r = 1 THEN (V(g + 2) % 16) * 16 + (V(g + 3) \div 4)
                   ELSE (V(g + 3) % 4) * 64 + V(g + 4)])

\* base64.b64decode(x) for a Python value x: a str must be ASCII, any
\* other type here is a TypeError
b64decode(x) ==
  IF ~(IsStr(x) \/ IsBytes(x))
  THEN Raise("TypeError", "argument should be a bytes-like object or ASCII string")
  ELSE IF IsStr(x) /\ \E i \in 1..Len(x.v) : x.v[i] >= 128
  THEN Raise("ValueError", "string argument should contain only ASCII characters")
  ELSE A2bBase64(x.v)

----------------------------------------------------------------------------
(* cryptography's AESGCM: an AEAD with a 16-byte tag appended to the       *)
(* ciphertext.  The keystream and the tag are fixed functions of           *)
(* (key, nonce) and (key, nonce, ciphertext); as in GCM, changing one byte *)
(* of the nonce, of the ciphertext or of the tag changes or invalidates    *)
(* the tag.                                                                *)

NonceSize == 12
TagSize == 16

KeyAt(key, i) == key[((i - 1) % Len(key)) + 1]

RECURSIVE PlainSum(_, _)
PlainSum(b, i) == IF i > Len(b) THEN 0 ELSE i * b[i] + PlainSum(b, i + 1)

RECURSIVE StrideSum(_, _)
\* b[j] + b[j + 16] + b[j + 32] + ...
StrideSum(b, j) == IF j > Len(b) THEN 0 ELSE b[j] + StrideSum(b, j + TagSize)

Keystream(key, nonce, i) == (KeyAt(key, i) + PlainSum(nonce, 1) + 13 * i) % 256

GcmTag(key, nonce, ct) ==
  [j \in 1..TagSize |->
     (KeyAt(key, j) + 3 * KeyAt(key, j + TagSize) + StrideSum(nonce, j)
        + StrideSum(ct, j) + 5 * Len(ct) + j) % 256]

\* AESGCM(key) then a check of the nonce: the exception either raises, or "none"
AesGcmParams(key, nonce) ==
  IF Len(key) \notin {16, 24, 32}
  THEN Raise("ValueError", "AESGCM key must be 128, 192, or 256 bits.")
  ELSE IF Len(nonce) < 8 \/ Len(nonce) > 128
  THEN Raise("ValueError", "Nonce must be between 8 and 128 bytes")
  ELSE Ok(<<>>)

\* AESGCM(key).encrypt(nonce, plaintext, None)
AesGcmEncrypt(key, nonce, plaintext) ==
  LET p == AesGcmParams(key, nonce)
      ct == [i \in 1..Len(plaintext) |-> (plaintext[i] + Keystream(key, nonce, i)) % 256]
  IN IF p.exc # "none" THEN p ELSE Ok(ct \o GcmTag(key, nonce, ct))

\* AESGCM(key).decrypt(nonce, data, None)
AesGcmDecrypt(key, nonce, data) ==
  LET p == AesGcmParams(key, nonce)
      ct == Take(data, Len(data) - TagSize)
      tag == Drop(data, Len(data) - TagSize)
  IN IF p.exc # "none" THEN p
     ELSE IF Len(data) < TagSize THEN Raise("InvalidTag", "")
     ELSE IF tag # GcmTag(key, nonce, ct) THEN Raise("InvalidTag", "")
     ELSE Ok([i \in 1..Len(ct) |-> (ct[i] + 256 - Keystream(key, nonce, i)) % 256])

----------------------------------------------------------------------------
(* json.dumps (default separators, ensure_ascii)                           *)

RECURSIVE Digits(_)
Digits(n) == IF n < 10 THEN <<48 + n>> ELSE Digits(n \div 10) \o <<48 + (n % 10)>>

\* str(n) for an int
IntStr(n) == IF n < 0 THEN <<45>> \o Digits(0 - n) ELSE Digits(n)

HexDigit(n) == IF n < 10 THEN 48 + n ELSE 87 + n

\* \uXXXX
UEscape(c) ==
  <<92, 117, HexDigit(c \div 4096), HexDigit((c \div 256) % 16),
    HexDigit((c \div 16) % 16), HexDigit(c % 16)>>

EscapeChar(c) ==
  IF c = 34 THEN <<92, 34>>
  ELSE IF c = 92 THEN <<92, 92>>
  ELSE IF c = 10 THEN <<92, 110>>
  ELSE IF c = 13 THEN <<92, 114>>
  ELSE IF c = 9 THEN <<92, 116>>
  ELSE IF c < 32 \/ c >= 128 THEN UEscape(c)
  ELSE <<c>>

RECURSIVE EscapeRange(_, _, _)
EscapeRange(s, lo, hi) ==
  IF lo > hi THEN <<>>
  ELSE IF lo = hi THEN EscapeChar(s[lo])
  ELSE LET mid == (lo + hi) \div 2
       IN EscapeRange(s, lo, mid) \o EscapeRange(s, mid + 1, hi)

JsonString(s) == <<34>> \o EscapeRange(s, 1, Len(s)) \o <<34>>

W_null == <<110, 117, 108, 108>>
W_true == <<116, 114, 117, 101>>
W_false == <<102, 97, 108, 115, 101>>

\* a dict key as json.dumps writes it; <<-1>> for a key it refuses
JsonKey(k) ==
  CASE k.t = "str" -> JsonString(k.v)
    [] k.t = "int" -> JsonString(IntStr(k.v))
    [] k.t = "bool" -> JsonString(IF k.v THEN W_true ELSE W_false)
    [] k.t = "none" -> JsonString(W_null)
    [] OTHER -> <<-1>>

RECURSIVE DumpsVal(_), DumpsList(_, _), DumpsItems(_, _)
\* the text of x; a -1 in it marks a TypeError (not JSON serializable)
DumpsVal(x) ==
  CASE x.t = "none" -> W_null
    [] x.t = "bool" -> (IF x.v THEN W_true ELSE W_false)
    [] x.t = "int" -> IntStr(x.v)
    [] x.t = "str" -> JsonString(x.v)
    [] x.t \in {"list", "tuple"} -> <<91>> \o DumpsList(x.v, 1) \o <<93>>
    [] x.t = "dict" -> <<123>> \o DumpsItems(x.v, 1) \o <<125>>
    [] OTHER -> <<-1>>

DumpsList(l, i) ==
  IF i > Len(l) THEN <<>>
  ELSE (IF i > 1 THEN <<44, 32>> ELSE <<>>) \o DumpsVal(l[i]) \o DumpsList(l, i + 1)

DumpsItems(items, i) ==
  IF i > Len(items) THEN <<>>
  ELSE (IF i > 1 THEN <<44, 32>> ELSE <<>>)
         \o JsonKey(items[i][1]) \o <<58, 32>> \o DumpsVal(items[i][2])
         \o DumpsItems(items, i + 1)

\* json.dumps(x)
json_dumps(x) ==
  LET s == DumpsVal(x)
  IN IF \E i \in 1..Len(s) : s[i] = -1
     THEN Raise("TypeError", "Object is not JSON serializable")
     ELSE Ok(s)

----------------------------------------------------------------------------
(* json.loads : objects, arrays, strings, integers, true, false, null.     *)
(* A parse step returns [ok, val, pos]: pos is the index after the value.  *)

PFail(i) == [ok |-> FALSE, val |-> PyNone, pos |-> i]
PDone(x, i) == [ok |-> TRUE, val |-> x, pos |-> i]

IsWs(c) == c \in {32, 9, 10, 13}
IsDigit(c) == c >= 48 /\ c <= 57

RECURSIVE SkipWs(_, _)
SkipWs(s, i) == IF i <= Len(s) /\ IsWs(s[i]) THEN SkipWs(s, i + 1) ELSE i

\* whether the word w stands at s[i..]
Matches(s, i, w) ==
  /\ i + Len(w) - 1 <= Len(s)
  /\ \A k \in 1..Len(w) : s[i + k - 1] = w[k]

RECURSIVE ParseDigits(_, _, _)
\* the digits at s[i..] after the value acc: <<value, next index>>
ParseDigits(s, i, acc) ==
  IF i <= Len(s) /\ IsDigit(s[i])
  THEN ParseDigits(s, i + 1, acc * 10 + (s[i] - 48))
  ELSE <<acc, i>>

\* -?(0|[1-9][0-9]*) at s[i..]
ParseInt(s, i) ==
  LET neg == s[i] = 45
      j == IF neg THEN i + 1 ELSE i
  IN IF j > Len(s) \/ ~IsDigit(s[j]) THEN PFail(i)
     ELSE IF s[j] = 48 THEN PDone(PyInt(0), j + 1)
     ELSE LET d == ParseDigits(s, j, 0)
          IN PDone(PyInt(IF neg THEN 0 - d[1] ELSE d[1]), d[2])

RECURSIVE ParseChars(_, _, _)
\* the characters of a string literal whose opening quote is before s[i]
ParseChars(s, i, acc) ==
  IF i > Len(s) THEN PFail(i)
  ELSE IF s[i] = 34 THEN PDone(PyStr(acc), i + 1)
  ELSE IF s[i] < 32 THEN PFail(i)
  ELSE IF s[i] # 92 THEN ParseChars(s, i + 1, Append(acc, s[i]))
  ELSE IF i + 1 > Len(s) THEN PFail(i)
  ELSE LET e == s[i + 1]
       IN IF e \in {34, 92, 47} THEN ParseChars(s, i + 2, Append(acc, e))
          ELSE IF e = 110 THEN ParseChars(s, i + 2, Append(acc, 10))
          ELSE IF e = 114 THEN ParseChars(s, i + 2, Append(acc, 13))
          ELSE IF e = 116 THEN ParseChars(s, i + 2, Append(acc, 9))
          ELSE IF e = 98 THEN ParseChars(s, i + 2, Append(acc, 8))
          ELSE IF e = 102 THEN ParseChars(s, i + 2, Append(acc, 12))
          ELSE IF /\ e = 117 /\ i + 5 <= Len(s)
                  /\ \A k \in 2..5 : HexVal(s[i + k]) >= 0
               THEN ParseChars(s, i + 6,
                      Append(acc, HexVal(s[i + 2]) * 4096 + HexVal(s[i + 3]) * 256
                                    + HexVal(s[i + 4]) * 16 + HexVal(s[i + 5])))
          ELSE PFail(i)

RECURSIVE ParseValue(_, _), ParseElems(_, _, _), ParseMembers(_, _, _)
\* a value at s[i] (whitespace already skipped)
ParseValue(s, i) ==
  IF i > Len(s) THEN PFail(i)
  ELSE IF s[i] = 34 THEN ParseChars(s, i + 1, <<>>)
  ELSE IF s[i] = 123 THEN
    LET j == SkipWs(s, i + 1)
    IN IF j <= Len(s) /\ s[j] = 125 THEN PDone(PyDict(<<>>), j + 1)
       ELSE ParseMembers(s, j, PyDict(<<>>))
  ELSE IF s[i] = 91 THEN
    LET j == SkipWs(s, i + 1)
    IN IF j <= Len(s) /\ s[j] = 93 THEN PDone(PyList(<<>>), j + 1)
       ELSE ParseElems(s, j, <<>>)
  ELSE IF Matches(s, i, W_null) THEN PDone(PyNone, i + 4)
  ELSE IF Matches(s, i, W_true) THEN PDone(PyBool(TRUE), i + 4)
  ELSE IF Matches(s, i, W_false) THEN PDone(PyBool(FALSE), i + 5)
  ELSE IF s[i] = 45 \/ IsDigit(s[i]) THEN ParseInt(s, i)
  ELSE PFail(i)

\* the elements of an array from s[i] (an element is expected there)
ParseElems(s, i, acc) ==
  LET r == ParseValue(s, i)
      j == SkipWs(s, r.pos)
  IN IF ~r.ok THEN r
     ELSE IF j > Len(s) THEN PFail(j)
     ELSE IF s[j] = 93 THEN PDone(PyList(Append(acc, r.val)), j + 1)
     ELSE IF s[j] = 44 THEN ParseElems(s, SkipWs(s, j + 1), Append(acc, r.val))
     ELSE PFail(j)

\* the members of an object from s[i] (a key is expected there); a key that
\* repeats keeps its first position and takes the last value
ParseMembers(s, i, acc) ==
  IF i > Len(s) \/ s[i] # 34 THEN PFail(i)
  ELSE LET k == ParseChars(s, i + 1, <<>>)
           c == SkipWs(s, k.pos)
       IN IF ~k.ok THEN k
          ELSE IF c > Len(s) \/ s[c] # 58 THEN PFail(c)
          ELSE LET r == ParseValue(s, SkipWs(s, c + 1))
                   j == SkipWs(s, r.pos)
                   d == DictSet(acc, k.val, r.val)
               IN IF ~r.ok THEN r
                  ELSE IF j > Len(s) THEN PFail(j)
                  ELSE IF s[j] = 125 THEN PDone(d, j + 1)
                  ELSE IF s[j] = 44 THEN ParseMembers(s, SkipWs(s, j + 1), d)
                  ELSE PFail(j)

\* json.loads(s) for a str s
json_loads(s) ==
  LET Whole(r) == IF r.ok /\ SkipWs(s, r.pos) > Len(s) THEN Ok(r.val)
                  ELSE Raise("JSONDecodeError", "Expecting value")
  IN Whole(ParseValue(s, SkipWs(s, 1)))

----------------------------------------------------------------------------
(* app/utils/crypto.py : class AESCrypto                                   *)

\* AESCrypto.__init__ : whether `crypto = AESCrypto()` raises ValueError
\* ("AES_KEY_HASH environment variable not set")
AESCrypto_init_raises(env) == ~Truthy(env)

\* AESCrypto._derive_key_from_hash(key_hash) for a str (code points)
derive_key_from_hash(kh) ==
  IF Len(kh) = 64
  THEN LET First32(b) == IF b.exc # "none" THEN b ELSE Ok(Take(b.val, 32))
       IN First32(BytesFromHex(kh))
  ELSE Ok(Sha256(StrEncode(kh)))

\* str(data) for the values encrypt_payload's last branch meets
PyStrOf(x) ==
  CASE x.t = "none" -> <<78, 111, 110, 101>>
    [] x.t = "bool" -> (IF x.v THEN <<84, 114, 117, 101>> ELSE <<70, 97, 108, 115, 101>>)
    [] x.t = "int" -> IntStr(x.v)

\* the plaintext bytes encrypt_payload makes of data (lines 33-40)
PlaintextOf(data) ==
  CASE data.t = "dict" ->
         (LET Encoded(j) == IF j.exc # "none" THEN j ELSE Ok(StrEncode(j.val))
          IN Encoded(json_dumps(data)))
    [] data.t = "str" -> Ok(StrEncode(data.v))
    [] data.t = "bytes" -> Ok(data.v)
    [] OTHER -> Ok(StrEncode(PyStrOf(data)))

\* the try block of encrypt_payload (lines 32-54); nonce is what
\* os.urandom(12) returned
EncryptBody(kh, data, nonce) ==
  LET Combined(ciphertext) ==
        IF ciphertext.exc # "none" THEN ciphertext
        ELSE Ok(PyStr(b64encode(nonce \o ciphertext.val)))
      Encrypted(plaintext, key) ==
        IF plaintext.exc # "none" THEN plaintext
        ELSE IF key.exc # "none" THEN key
        ELSE Combined(AesGcmEncrypt(key.val, nonce, plaintext.val))
  IN Encrypted(PlaintextOf(data), derive_key_from_hash(kh))

\* AESCrypto.encrypt_payload(data) under self.key_hash = kh
encrypt_payload(kh, data, nonce) ==
  LET Except(r) == IF r.exc # "none" THEN Raise("ValueError", <<"Encryption failed: ", r.msg>>)
                   ELSE r
  IN Except(EncryptBody(kh, data, nonce))

\* lines 80-83: json.loads(plaintext.decode()), the bytes when they are not JSON
LoadsOrBytes(plaintext) ==
  LET Except(j) == IF j.exc # "none" THEN PyBytes(plaintext) ELSE j.val
      Loaded(s) == IF s.exc # "none" THEN PyBytes(plaintext) ELSE Except(json_loads(s.val))
  IN Loaded(BytesDecode(plaintext))

\* DecryptBody with the nonce taken as the first 16 bytes instead of 12
DecryptBody_Nonce16(kh, encrypted_data) ==
  LET Parsed(plaintext) ==
        IF plaintext.exc # "none" THEN plaintext ELSE Ok(LoadsOrBytes(plaintext.val))
      Decrypted(encrypted_bytes, key) ==
        IF encrypted_bytes.exc # "none" THEN encrypted_bytes
        ELSE IF key.exc # "none" THEN key
        ELSE Parsed(AesGcmDecrypt(key.val, Take(encrypted_bytes.val, 16),
                                  Drop(encrypted_bytes.val, 16)))
  IN Decrypted(b64decode(encrypted_data), derive_key_from_hash(kh))

\* the try block of decrypt_payload (lines 65-83)
DecryptBody(kh, encrypted_data) ==
  LET Parsed(plaintext) ==
        IF plaintext.exc # "none" THEN plaintext ELSE Ok(LoadsOrBytes(plaintext.val))
      Decrypted(encrypted_bytes, key) ==
        IF encrypted_bytes.exc # "none" THEN encrypted_bytes
        ELSE IF key.exc # "none" THEN key
        ELSE Parsed(AesGcmDecrypt(key.val, Take(encrypted_bytes.val, NonceSize),
                                  Drop(encrypted_bytes.val, NonceSize)))
  IN Decrypted(b64decode(encrypted_data), derive_key_from_hash(kh))

\* decrypt_payload with a handler that swallows the failure and returns b""
decrypt_payload_Swallow(kh, encrypted_data) ==
  LET Except(r) == IF r.exc # "none" THEN Ok(PyBytes(<<>>)) ELSE r
  IN Except(DecryptBody(kh, encrypted_data))

\* AESCrypto.decrypt_payload(encrypted_data) under self.key_hash = kh
decrypt_payload(kh, encrypted_data) ==
  LET Except(r) == IF r.exc # "none" THEN Raise("ValueError", <<"Decryption failed: ", r.msg>>)
                   ELSE r
  IN Except(DecryptBody(kh, encrypted_data))

----------------------------------------------------------------------------
(* Sample data: field names, ids, secrets, nonces, mappings                *)

\* "encrypted_payload"
S_encrypted_payload == <<101, 110, 99, 114, 121, 112, 116, 101, 100, 95, 112, 97, 121, 108, 111, 97, 100>>
\* "url"
S_url == <<117, 114, 108>>
\* "file_id"
S_file_id == <<102, 105, 108, 101, 95, 105, 100>>
\* "is_public"
S_is_public == <<105, 115, 95, 112, 117, 98, 108, 105, 99>>
\* "file_data"
S_file_data == <<102, 105, 108, 101, 95, 100, 97, 116, 97>>
\* "filename"
S_filename == <<102, 105, 108, 101, 110, 97, 109, 101>>
\* "file"
S_file == <<102, 105, 108, 101>>
\* "files"
S_files == <<102, 105, 108, 101, 115>>
\* "object_path"
S_object_path == <<111, 98, 106, 101, 99, 116, 95, 112, 97, 116, 104>>
\* "size"
S_size == <<115, 105, 122, 101>>
\* "original_filename"
S_original_filename == <<111, 114, 105, 103, 105, 110, 97, 108, 95, 102, 105, 108, 101, 110, 97, 109, 101>>
\* "a.txt"
Id_a == <<97, 46, 116, 120, 116>>
\* "b.txt"
Id_b == <<98, 46, 116, 120, 116>>
\* "u-1", "u-2", ...: the values str(uuid.uuid4()) returns
Uuids == {<<117, 45, 48 + n>> : n \in 1..MaxUuid}

\* AES_KEY_HASH: 64 zero characters (the key is 32 zero bytes)
K_zero64 == Rep(48, 64)
\* AES_KEY_HASH: 64 hexadecimal digits, both cases
K_hex64 == [i \in 1..64 |-> IF i % 3 = 0 THEN 65 + (i % 6) ELSE 48 + ((i * 7) % 10)]
\* AES_KEY_HASH: 64 characters that are not hexadecimal digits
K_nonhex64 == Rep(122, 64)
\* AES_KEY_HASH: 64 characters, hexadecimal digits around two blanks
K_spaced64 == [i \in 1..64 |-> IF i \in {3, 4} THEN 32 ELSE 49]
\* AES_KEY_HASH: a passphrase, "sécret"
K_pass == <<115, 233, 99, 114, 101, 116>>

\* the secrets an AESCrypto instance can hold (__init__ refuses None and "")
Secrets == {K_zero64, K_hex64, K_nonhex64, K_spaced64, K_pass}

\* values os.urandom(12) may return
Nonces == {[i \in 1..NonceSize |-> (i * (37 * n + 5) + 200 * n) % 256] : n \in 1..MaxNonce}

\* JSON-object-shaped mappings, as the handlers build and the clients send
M_empty == PyDict(<<>>)
M_scenario == PyDict(<< <<PyStr(S_file_id), PyStr(Id_a)>>, <<PyStr(S_is_public), PyBool(FALSE)>> >>)
M_files ==
  PyDict(<< <<PyStr(S_files),
              PyList(<< PyDict(<< <<PyStr(S_file_id), PyStr(Id_b)>>, <<PyStr(S_size), PyInt(305)>> >>),
                        PyNone >>)>> >>)
M_quoted == PyDict(<< <<PyStr(<<113, 34>>), PyStr(<<92, 233, 10>>)>>, <<PyStr(<<110>>), PyInt(0 - 12)>> >>)

Mappings == {M_empty, M_scenario, M_files, M_quoted}

----------------------------------------------------------------------------
(* The codec on its own: one AESCrypto instance, calls made one at a time. *)
(* last is the call in progress or its result, [op |-> "idle"] between     *)
(* calls.                                                                  *)

Idle == [op |-> "idle"]

InitCodec ==
  /\ key_hash \in {PyStr(k) : k \in Secrets}
  /\ proc = "up"
  /\ store = {}
  /\ last = Idle
  /\ wire = <<>>
  /\ pending = {}

\* key = self._derive_key_from_hash(self.key_hash)
DeriveKey ==
  /\ last.op = "idle"
  /\ last' = [op |-> "derive_key", res |-> derive_key_from_hash(key_hash.v)]
  /\ UNCHANGED <<key_hash, proc, store, wire, pending>>

\* envelope = crypto.encrypt_payload(data); the envelope is then in flight
Encrypt ==
  /\ last.op = "idle"
  /\ \E data \in Mappings, nonce \in Nonces :
       last' = [op |-> "encrypt_payload", data |-> data, nonce |-> nonce,
                res |-> encrypt_payload(key_hash.v, data, nonce)]
  /\ UNCHANGED <<key_hash, proc, store, wire, pending>>

\* crypto.decrypt_payload(envelope) of the envelope in flight
Decrypt ==
  /\ last.op = "encrypt_payload"
  /\ last.res.exc = "none"
  /\ last' = [op |-> "decrypt_payload", data |-> last.data, envelope |-> last.res.val,
              tampered |-> FALSE, res |-> decrypt_payload(key_hash.v, last.res.val)]
  /\ UNCHANGED <<key_hash, proc, store, wire, pending>>

\* the byte deltas a tampering party adds to one byte
Deltas == {(k * 127) % 256 : k \in 1..MaxDelta}

\* the envelope with byte pos of its base64-decoded form changed by delta
TamperedEnvelope(envelope, pos, delta) ==
  LET b == b64decode(envelope).val
  IN PyStr(b64encode([b EXCEPT ![pos] = (b[pos] + delta) % 256]))

\* the envelope in flight is changed in one byte, then decrypted
TamperAndDecrypt ==
  /\ last.op = "encrypt_payload"
  /\ last.res.exc = "none"
  /\ \E pos \in 1..Len(b64decode(last.res.val).val), delta \in Deltas :
       LET t == TamperedEnvelope(last.res.val, pos, delta)
       IN last' = [op |-> "decrypt_payload", data |-> last.data, envelope |-> t,
                   tampered |-> TRUE, res |-> decrypt_payload(key_hash.v, t)]
  /\ UNCHANGED <<key_hash, proc, store, wire, pending>>

\* envelopes that are no output of encrypt_payload
S_garbage == <<33, 33, 33, 33>>
S_short == <<81, 85, 74, 68>>
S_badpad == <<81, 85, 74, 68, 82>>
\* 20 bytes: a nonce and 8 more, less than a tag
E_notag == PyStr(b64encode(Rep(7, 20)))
Malformed == {PyStr(<<>>), PyStr(S_garbage), PyStr(S_short), PyStr(S_badpad),
              PyStr(<<233>>), PyInt(5), PyNone, E_notag}

\* crypto.decrypt_payload(x) of a value that is no envelope
DecryptMalformed ==
  /\ last.op = "idle"
  /\ \E x \in Malformed :
       last' = [op |-> "decrypt_payload", data |-> PyNone, envelope |-> x,
                tampered |-> FALSE, res |-> decrypt_payload(key_hash.v, x)]
  /\ UNCHANGED <<key_hash, proc, store, wire, pending>>

\* the caller takes the result
Return ==
  /\ last.op # "idle"
  /\ last' = Idle
  /\ UNCHANGED <<key_hash, proc, store, wire, pending>>

NextCodec ==
  \/ DeriveKey
  \/ Encrypt
  \/ Decrypt
  \/ TamperAndDecrypt
  \/ DecryptMalformed
  \/ Return

SpecCodec == InitCodec /\ [][NextCodec]_vars

----------------------------------------------------------------------------
(* Properties of the codec                                                 *)

\* the secret yields a key AESGCM accepts
KeyUsable == derive_key_from_hash(key_hash.v).exc = "none"
               /\ Len(derive_key_from_hash(key_hash.v).val) = 32

\* C1: round trip.  Under every secret from which a 32-byte key derives,
\* encrypt_payload of a mapping returns an envelope, and decrypt_payload of
\* that envelope returns a mapping equal to the one encrypted.
C1_RoundTrip ==
  /\ (last.op = "encrypt_payload" /\ KeyUsable) => last.res.exc = "none"
  /\ (last.op = "decrypt_payload" /\ ~last.tampered /\ IsDict(last.data)) =>
        (last.res.exc = "none" /\ DictEq(last.res.val, last.data))

\* the scenario of the specification: the secret is 64 zero characters and
\* {"file_id": "a.txt", "is_public": false} comes back from the round trip
C1_Witness ==
  /\ key_hash = PyStr(K_zero64)
  /\ last.op = "decrypt_payload" /\ ~last.tampered
  /\ last.data = M_scenario
  /\ last.res = Ok(M_scenario)

HexDecode32(s) == [i \in 1..32 |-> HexVal(s[2 * i - 1]) * 16 + HexVal(s[2 * i])]

IsHex64(s) == Len(s) = 64 /\ \A i \in 1..64 : HexVal(s[i]) >= 0

\* C10: derive_key is total onto 32-byte keys: the hex decoding of a secret
\* of 64 hexadecimal digits, the digest of the UTF-8 bytes of any other
\* secret (also one of 64 characters that are not all hexadecimal digits).
C10_DeriveKeyTotal ==
  last.op = "derive_key" =>
    last.res = Ok(IF IsHex64(key_hash.v) THEN HexDecode32(key_hash.v)
                  ELSE Sha256(StrEncode(key_hash.v)))

----------------------------------------------------------------------------
(* app/utils/encryption_middleware.py                                      *)

\* raise HTTPException(status_code=status, detail=detail)
HTTPException(status, detail) == [exc |-> "HTTPException", status |-> status, msg |-> detail]

\* str(e)
ExcStr(e) == IF e.exc = "HTTPException" THEN <<e.status, e.msg>> ELSE e.msg

\* isinstance(e, ValueError): binascii.Error, UnicodeDecodeError and
\* json.JSONDecodeError are subclasses of ValueError
IsValueError(e) ==
  e.exc \in {"ValueError", "binascii.Error", "UnicodeDecodeError", "JSONDecodeError"}

\* json.loads(decrypted.decode()) guarded as in lines 19-22
LoadsDecrypted(b) ==
  LET Except(j) == IF j.exc # "none"
                   THEN Raise("ValueError", "Decrypted payload is not valid JSON") ELSE j
      Loaded(s) == IF s.exc # "none"
                   THEN Raise("ValueError", "Decrypted payload is not valid JSON")
                   ELSE Except(json_loads(s.val))
  IN Loaded(BytesDecode(b))

\* HandleTry without the isinstance checks: whatever was decrypted is returned
HandleTry_NoTypeCheck(kh, request_data) ==
  decrypt_payload(kh, DictGet(request_data, PyStr(S_encrypted_payload), PyNone))

\* the try block of handle_encrypted_request (lines 14-24)
HandleTry(kh, request_data) ==
  LET Checked(decrypted) ==
        IF decrypted.exc # "none" THEN decrypted
        ELSE IF IsDict(decrypted.val) THEN decrypted
        ELSE IF IsBytes(decrypted.val) THEN LoadsDecrypted(decrypted.val.v)
        ELSE Raise("ValueError", "Decrypted payload has unexpected type")
  IN Checked(decrypt_payload(kh, DictGet(request_data, PyStr(S_encrypted_payload), PyNone)))

\* handle_encrypted_request that decrypts every mapping, with
\* request_data.get('encrypted_payload')
handle_encrypted_request_AnyDict(kh, request_data) ==
  IF IsDict(request_data)
  THEN LET Except(r) == IF r.exc # "none"
                        THEN HTTPException(400, <<"Failed to decrypt payload: ", r.msg>>)
                        ELSE r
       IN [out |-> Except(HandleTry(kh, request_data)), codec |-> 1]
  ELSE [out |-> Ok(PyDict(<<>>)), codec |-> 0]

\* handle_encrypted_request(request_data): out is what it returns or raises,
\* codec the number of calls of crypto.decrypt_payload it made
handle_encrypted_request(kh, request_data) ==
  IF IsDict(request_data) /\ DictHas(request_data, PyStr(S_encrypted_payload))
  THEN LET Except(r) == IF r.exc # "none"
                        THEN HTTPException(400, <<"Failed to decrypt payload: ", r.msg>>)
                        ELSE r
       IN [out |-> Except(HandleTry(kh, request_data)), codec |-> 1]
  ELSE [out |-> Ok(IF IsDict(request_data) THEN request_data ELSE PyDict(<<>>)),
        codec |-> 0]

\* create_encrypted_response that returns the plain data when encrypting fails
create_encrypted_response_Fallback(kh, data, should_encrypt, nonce) ==
  IF should_encrypt
  THEN LET Wrapped(e) == IF e.exc # "none" THEN Ok(data)
                         ELSE Ok(PyDict(<< <<PyStr(S_encrypted_payload), e.val>> >>))
       IN Wrapped(encrypt_payload(kh, data, nonce))
  ELSE Ok(data)

\* create_encrypted_response(data, should_encrypt)
create_encrypted_response(kh, data, should_encrypt, nonce) ==
  IF should_encrypt
  THEN LET Wrapped(e) == IF e.exc # "none"
                         THEN HTTPException(500, <<"Failed to encrypt response: ", e.msg>>)
                         ELSE Ok(PyDict(<< <<PyStr(S_encrypted_payload), e.val>> >>))
       IN Wrapped(encrypt_payload(kh, data, nonce))
  ELSE Ok(data)

\* requires_encryption(): crypto.key_hash is not None
requires_encryption(crypto_key_hash) == crypto_key_hash.t # "none"

----------------------------------------------------------------------------
(* app/utils/form_parser.py                                                *)

\* max_bytes = 250 * 1024 * 1024
max_bytes == 262144000

\* "maximum size" in str(e).lower(), for the messages of RequestForm
MentionsMaximumSize(msg) == msg = "Part exceeded maximum size of 256000KB."

\* request.form(max_part_size=n) of Starlette: a multipart request is
\* [fields |-> dict, size |-> bytes of its largest field, malformed |-> bool]
RequestForm(request, max_part_size) ==
  IF request.malformed THEN Raise("MultiPartException", "Missing boundary in multipart.")
  ELSE IF request.size > max_part_size
  THEN Raise("MultiPartException", "Part exceeded maximum size of 256000KB.")
  ELSE Ok(request.fields)

\* parse_large_form(request)
parse_large_form(request) ==
  LET Except(form) ==
        IF form.exc = "none" THEN form
        ELSE IF MentionsMaximumSize(form.msg)
        THEN HTTPException(413, <<"File too large. Maximum size is 250MB for encrypted uploads.">>)
        ELSE HTTPException(400, <<"Form parsing failed: ", form.msg>>)
  IN Except(RequestForm(request, max_bytes))

----------------------------------------------------------------------------
(* app/utils/gcs_client.py is not among the sources: the object store is   *)
(* modelled from its interface, exists / put / list over the two           *)
(* partitions.  store is the set of objects [id, is_public, data].         *)

\* gcs_client.file_exists(file_id, is_public)
file_exists(st, file_id, is_public) ==
  \E o \in st : o.id = file_id /\ o.is_public = is_public

\* the path of an object: "public/" or "private/", then the id
ObjectPath(file_id, is_public) ==
  (IF is_public THEN <<112, 117, 98, 108, 105, 99, 47>>
   ELSE <<112, 114, 105, 118, 97, 116, 101, 47>>) \o file_id

\* the object gcs_client.upload_from_file / upload_from_url stores; the
\* partition is chosen by the truth value of is_public
StoredObject(data, file_id, is_public) ==
  [id |-> file_id, is_public |-> Truthy(is_public), data |-> data]

\* the store after a put: an object of the same id and partition is replaced
StorePut(st, o) == {x \in st : ~(x.id = o.id /\ x.is_public = o.is_public)} \cup {o}

\* the entry gcs_client.list_files gives for an object
FileEntry(o) ==
  PyDict(<< <<PyStr(S_file_id), PyStr(o.id)>>,
            <<PyStr(S_object_path), PyStr(ObjectPath(o.id, o.is_public))>>,
            <<PyStr(S_size), PyInt(Len(o.data))>>,
            <<PyStr(S_is_public), PyBool(o.is_public)>> >>)

RECURSIVE EntriesOf(_)
\* the entries of a set of objects, in a fixed order
EntriesOf(objs) ==
  IF objs = {} THEN <<>>
  ELSE LET o == CHOOSE x \in objs : TRUE
       IN <<FileEntry(o)>> \o EntriesOf(objs \ {o})

\* gcs_client.list_files(is_public): is_public is a bool or None (both)
gcs_list_files(st, is_public) ==
  PyList(EntriesOf({o \in st : is_public.t = "none" \/ o.is_public = is_public.v}))

----------------------------------------------------------------------------
(* app/routes/files.py : the upload handlers and list_files.  k is         *)
(* crypto.key_hash, st the object store; a handler's result is             *)
(* [out, path, inner, store]: what reaches the client, the branch taken    *)
(* ("decrypt", "plain", or "none" when none was reached), what the try     *)
(* block returned or raised, and the store afterwards.                     *)

\* "http://"
W_http == <<104, 116, 116, 112, 58, 47, 47>>
\* "https://"
W_https == <<104, 116, 116, 112, 115, 58, 47, 47>>

\* the least element of a non-empty set of integers
Least(S) == CHOOSE x \in S : \A y \in S : x <= y

\* the first index at or after i where s has a character of cs, else Len(s) + 1
FirstOf(s, i, cs) ==
  LET c == {n \in i..Len(s) : s[n] \in cs}
  IN IF c = {} THEN Len(s) + 1 ELSE Least(c)

\* pydantic HttpUrl: an http(s) scheme and a non-empty host
IsHttpUrl(x) ==
  /\ IsStr(x)
  /\ \/ Matches(x.v, 1, W_http) /\ FirstOf(x.v, Len(W_http) + 1, {47, 63, 35}) > Len(W_http) + 1
     \/ Matches(x.v, 1, W_https) /\ FirstOf(x.v, Len(W_https) + 1, {47, 63, 35}) > Len(W_https) + 1

\* the body parameter request: Union[UploadURLRequest, EncryptedRequest]
\* of a JSON object body; the members are tried from the left, fields a
\* model does not declare are ignored
ParseUploadUrlBody(body) ==
  IF /\ IsHttpUrl(DictGet(body, PyStr(S_url), PyNone))
     /\ DictGet(body, PyStr(S_file_id), PyNone).t \in {"none", "str"}
     /\ DictGet(body, PyStr(S_is_public), PyBool(FALSE)).t = "bool"
  THEN Ok([cls |-> "UploadURLRequest",
           url |-> DictGet(body, PyStr(S_url), PyNone),
           file_id |-> DictGet(body, PyStr(S_file_id), PyNone),
           is_public |-> DictGet(body, PyStr(S_is_public), PyBool(FALSE))])
  ELSE IF IsStr(DictGet(body, PyStr(S_encrypted_payload), PyNone))
  THEN Ok([cls |-> "EncryptedRequest",
           encrypted_payload |-> DictGet(body, PyStr(S_encrypted_payload), PyNone)])
  ELSE Raise("RequestValidationError", "422")

\* urlparse(url).path : what follows "://" and the host, up to '?' or '#'
UrlPath(url) ==
  LET at == {i \in 1..Len(url) : Matches(url, i, <<58, 47, 47>>)}
      from == IF at = {} THEN 1 ELSE FirstOf(url, Least(at) + 3, {47, 63, 35})
      to == FirstOf(url, from, {63, 35})
  IN IF from >= to THEN <<>> ELSE SubSeq(url, from, to - 1)

\* os.path.basename(path) : what follows the last '/'
Basename(path) ==
  LET slashes == {i \in 1..Len(path) : path[i] = 47}
  IN IF slashes = {} THEN path ELSE Drop(path, 0 - Least({0 - i : i \in slashes}))

\* except ValueError -> 413 ; except Exception -> 500 (files.py 81-84, 150-153)
UploadExcept(r) ==
  IF r.exc = "none" THEN r
  ELSE IF IsValueError(r) THEN HTTPException(413, <<ExcStr(r)>>)
  ELSE HTTPException(500, <<"Upload failed: ", ExcStr(r)>>)

\* the existence check made in the private partition only
ExistsAnywhere_PrivateOnly(st, file_id) == file_exists(st, file_id, FALSE)

\* the objects of the store under an id, in either partition (files.py 61, 133)
ExistsAnywhere(st, file_id) == file_exists(st, file_id, TRUE) \/ file_exists(st, file_id, FALSE)

\* what a handler gives: the outcome r of its try block, passed through the
\* except clauses, with the branch taken and the store afterwards
Handled(r, path, st) == [out |-> UploadExcept(r), path |-> path, inner |-> r, store |-> st]

\* upload_from_url, lines 47-79: url, file_id, is_public are set; fetched is
\* what the download of url gave; requested is isinstance(request, EncryptedRequest)
UploadUrlStore(k, st, url, file_id, is_public, requested, fetched, uuid, nonce, path) ==
  LET filename == Basename(UrlPath(url.v))
      final_file_id ==
        IF Truthy(file_id) THEN file_id
        ELSE IF Len(filename) > 0 /\ filename # <<47>> THEN PyStr(filename) ELSE PyStr(uuid)
      o == StoredObject(fetched.val, final_file_id.v, is_public)
      response_data ==
        PyDict(<< <<PyStr(S_file_id), final_file_id>>,
                  <<PyStr(S_object_path), PyStr(ObjectPath(o.id, o.is_public))>>,
                  <<PyStr(S_size), PyInt(Len(o.data))>>,
                  <<PyStr(S_is_public), is_public>> >>)
      should_encrypt == requested /\ requires_encryption(k)
  IN IF ~Truthy(url) THEN Handled(HTTPException(400, <<"URL is required">>), path, st)
     ELSE IF ExistsAnywhere(st, final_file_id.v)
     THEN Handled(HTTPException(409, <<"File already exists">>), path, st)
     ELSE IF fetched.exc # "none" THEN Handled(fetched, path, st)
     ELSE Handled(create_encrypted_response(k.v, response_data, should_encrypt, nonce),
                  path, StorePut(st, o))

\* lines 38-41, decrypted_data being what handle_encrypted_request gave
UploadUrlDecrypted(k, st, decrypted_data, fetched, uuid, nonce) ==
  IF decrypted_data.exc # "none" THEN Handled(decrypted_data, "decrypt", st)
  ELSE UploadUrlStore(k, st, DictGet(decrypted_data.val, PyStr(S_url), PyNone),
                      DictGet(decrypted_data.val, PyStr(S_file_id), PyNone),
                      DictGet(decrypted_data.val, PyStr(S_is_public), PyBool(FALSE)),
                      TRUE, fetched, uuid, nonce, "decrypt")

\* upload_from_url(request) for a parsed body
upload_from_url(k, st, request, fetched, uuid, nonce) ==
  IF request.cls = "EncryptedRequest"
  THEN UploadUrlDecrypted(k, st,
         handle_encrypted_request(k.v, PyDict(<< <<PyStr(S_encrypted_payload),
                                                   request.encrypted_payload>> >>)).out,
         fetched, uuid, nonce)
  ELSE UploadUrlStore(k, st, request.url, request.file_id, request.is_public,
                      FALSE, fetched, uuid, nonce, "plain")

\* upload_direct, lines 128-148: the file bytes and the names are set;
\* present is `encrypted_payload is not None`
UploadDirectStore(k, st, file_data, file_id, is_public_final, original_filename, present, uuid, nonce, path) ==
  LET final_file_id ==
        IF Truthy(file_id) THEN file_id
        ELSE IF Truthy(original_filename) THEN original_filename ELSE PyStr(uuid)
      o == StoredObject(file_data, final_file_id.v, is_public_final)
      response_data ==
        PyDict(<< <<PyStr(S_file_id), final_file_id>>,
                  <<PyStr(S_object_path), PyStr(ObjectPath(o.id, o.is_public))>>,
                  <<PyStr(S_size), PyInt(Len(o.data))>>,
                  <<PyStr(S_is_public), is_public_final>>,
                  <<PyStr(S_original_filename), original_filename>> >>)
      should_encrypt == present /\ requires_encryption(k)
  IN IF ExistsAnywhere(st, final_file_id.v)
     THEN Handled(HTTPException(409, <<"File already exists">>), path, st)
     ELSE Handled(create_encrypted_response(k.v, response_data, should_encrypt, nonce),
                  path, StorePut(st, o))

\* lines 116-119, file_data being what base64.b64decode(file_data_b64) gave
UploadDirectDecoded(k, st, decrypted_data, file_data, uuid, nonce) ==
  IF file_data.exc # "none" THEN Handled(file_data, "decrypt", st)
  ELSE UploadDirectStore(k, st, file_data.val,
                         DictGet(decrypted_data, PyStr(S_file_id), PyNone),
                         DictGet(decrypted_data, PyStr(S_is_public), PyBool(FALSE)),
                         DictGet(decrypted_data, PyStr(S_filename), PyNone),
                         TRUE, uuid, nonce, "decrypt")

\* lines 111-116, decrypted_data being what handle_encrypted_request gave
UploadDirectDecrypted(k, st, decrypted_data, uuid, nonce) ==
  IF decrypted_data.exc # "none" THEN Handled(decrypted_data, "decrypt", st)
  ELSE IF ~Truthy(DictGet(decrypted_data.val, PyStr(S_file_data), PyNone))
  THEN Handled(HTTPException(400, <<"Missing file_data in encrypted payload">>), "decrypt", st)
  ELSE UploadDirectDecoded(k, st, decrypted_data.val,
                           b64decode(DictGet(decrypted_data.val, PyStr(S_file_data), PyNone)),
                           uuid, nonce)

\* lines 121-126: the branch of upload_direct for the multipart file
UploadDirectPlain(k, st, file, file_id, is_public, present, uuid, nonce) ==
  IF ~Truthy(file) THEN Handled(HTTPException(400, <<"File is required">>), "plain", st)
  ELSE IF file.t # "upload"
  THEN Handled(Raise("AttributeError", "'str' object has no attribute 'read'"), "plain", st)
  ELSE UploadDirectStore(k, st, file.v.data, file_id,
                         IF is_public.t # "none" THEN is_public ELSE PyBool(FALSE),
                         file.v.filename, present, uuid, nonce, "plain")

\* lines 96-126, form_data being what parse_large_form gave
UploadDirectParsed(k, st, form_data, uuid, nonce) ==
  LET encrypted_payload == DictGet(form_data.val, PyStr(S_encrypted_payload), PyNone)
  IN IF form_data.exc # "none" THEN Handled(form_data, "none", st)
     ELSE IF Truthy(encrypted_payload)
     THEN UploadDirectDecrypted(k, st,
            handle_encrypted_request(k.v, PyDict(<< <<PyStr(S_encrypted_payload),
                                                      encrypted_payload>> >>)).out,
            uuid, nonce)
     ELSE UploadDirectPlain(k, st, DictGet(form_data.val, PyStr(S_file), PyNone),
                            DictGet(form_data.val, PyStr(S_file_id), PyNone),
                            DictGet(form_data.val, PyStr(S_is_public), PyNone),
                            encrypted_payload.t # "none", uuid, nonce)

\* upload_direct(request) for a multipart request
upload_direct(k, st, request, uuid, nonce) ==
  UploadDirectParsed(k, st, parse_large_form(request), uuid, nonce)

\* list_files(is_public, encrypted)
list_files(k, st, is_public, encrypted, nonce) ==
  IF IsTrue(encrypted) /\ requires_encryption(k)
  THEN LET Except(r) == IF r.exc # "none"
                        THEN HTTPException(500, <<"Failed to list files: ", ExcStr(r)>>)
                        ELSE r
       IN Except(create_encrypted_response(k.v,
                   PyDict(<< <<PyStr(S_files), gcs_list_files(st, is_public)>> >>), TRUE, nonce))
  ELSE Ok(gcs_list_files(st, is_public))

----------------------------------------------------------------------------
(* The gateway process: it is started with AES_KEY_HASH in its environment *)
(* and then serves one request of an authenticated client at a time.       *)

\* "http://h/a.txt"
Url_a == <<104, 116, 116, 112, 58, 47, 47, 104, 47, 97, 46, 116, 120, 116>>
\* "http://h/d/"
Url_dir == <<104, 116, 116, 112, 58, 47, 47, 104, 47, 100, 47>>
\* "true"
S_true == <<116, 114, 117, 101>>
\* "QUJD", the base64 text of b"ABC"
B64_ABC == <<81, 85, 74, 68>>
\* "[1]"
J_list == <<91, 49, 93>>
\* "abc"
J_text == <<97, 98, 99>>
\* b"ABC"
D_abc == <<65, 66, 67>>

\* the secret the client encrypts with: the server's, or 64 zeros where the
\* server's yields no key
ClientKey(k) ==
  LET Fits(key) == key.exc = "none" /\ Len(key.val) = 32
  IN IF Fits(derive_key_from_hash(k.v)) THEN k.v ELSE K_zero64

\* the nonce the client draws
N_client == [i \in 1..NonceSize |-> (11 * i) % 256]

\* the envelope a client makes of data
ClientEnvelope(k, data) == encrypt_payload(ClientKey(k), data, N_client).val

\* {"encrypted_payload": x}
Enc(x) == PyDict(<< <<PyStr(S_encrypted_payload), x>> >>)

\* the values handle_encrypted_request is called with
ClassifierInputs(k) ==
  {PyStr(J_text), PyNone, PyList(<<PyInt(1)>>), M_empty, M_scenario}
    \cup {Enc(x) : x \in Malformed}
    \cup {IF d = M_quoted THEN DictSet(M_scenario, PyStr(S_encrypted_payload), e) ELSE Enc(e) :
            <<d, e>> \in {<<d, ClientEnvelope(k, d)>> :
                            d \in {M_scenario, M_empty, M_quoted, PyStr(J_list),
                                   PyStr(J_text), PyBytes(<<255>>)}}}

\* the mappings a client encrypts for /api/upload/url
P_url == PyDict(<< <<PyStr(S_url), PyStr(Url_a)>>, <<PyStr(S_is_public), PyBool(TRUE)>> >>)

\* the JSON bodies posted to /api/upload/url
UrlBodies(k) ==
  { PyDict(<< <<PyStr(S_url), PyStr(Url_a)>> >>),
    PyDict(<< <<PyStr(S_url), PyStr(Url_dir)>> >>),
    PyDict(<< <<PyStr(S_url), PyStr(Url_dir)>>, <<PyStr(S_file_id), PyStr(Id_a)>>,
              <<PyStr(S_is_public), PyBool(TRUE)>> >>),
    PyDict(<< <<PyStr(S_url), PyStr(Url_a)>>, <<PyStr(S_encrypted_payload), E_notag>> >>),
    Enc(PyStr(S_garbage)),
    M_empty }
    \cup {Enc(ClientEnvelope(k, d)) : d \in {P_url, M_scenario}}

\* what downloading the url gives gcs_client.upload_from_url
Fetches == {Ok(D_abc), Raise("RequestException", "fetch failed")}

\* an UploadFile of the multipart form
Upload(filename, data) == [t |-> "upload", v |-> [filename |-> PyStr(filename), data |-> data]]

\* the mappings a client encrypts for /api/upload/direct
P_file ==
  PyDict(<< <<PyStr(S_file_data), PyStr(B64_ABC)>>, <<PyStr(S_file_id), PyStr(Id_a)>>,
            <<PyStr(S_is_public), PyBool(TRUE)>>, <<PyStr(S_filename), PyStr(Id_b)>> >>)
P_badpad == PyDict(<< <<PyStr(S_file_data), PyStr(S_badpad)>> >>)

\* the fields of the multipart forms posted to /api/upload/direct
DirectForms(k) ==
  { PyDict(<< <<PyStr(S_file), Upload(Id_b, D_abc)>> >>),
    PyDict(<< <<PyStr(S_file), Upload(<<>>, D_abc)>>, <<PyStr(S_file_id), PyStr(Id_a)>>,
              <<PyStr(S_is_public), PyStr(S_true)>> >>),
    PyDict(<< <<PyStr(S_file), Upload(<<>>, D_abc)>> >>),
    Enc(PyStr(S_garbage)),
    PyDict(<< <<PyStr(S_encrypted_payload), PyStr(<<>>)>>, <<PyStr(S_file), Upload(Id_b, D_abc)>> >>),
    M_empty }
    \cup {Enc(ClientEnvelope(k, d)) : d \in {P_file, M_scenario, P_badpad, PyStr(J_list)}}

\* the multipart requests: the fields, the size in bytes of the largest
\* field, and whether the body is malformed
DirectRequests(k) ==
  {[malformed |-> FALSE, size |-> n, fields |-> f] :
      n \in {1, max_bytes, max_bytes + 1}, f \in DirectForms(k)}
    \cup {[malformed |-> TRUE, size |-> 1, fields |-> M_empty]}

\* the values str(uuid.uuid4()) can return: none that names a stored object
\* (the empty text when the model has no value left)
UuidChoices(st) ==
  LET fresh == {u \in Uuids : ~ExistsAnywhere(st, u)}
  IN IF fresh = {} THEN {<<>>} ELSE fresh

Init ==
  /\ key_hash \in {PyNone, PyStr(<<>>)} \cup {PyStr(k) : k \in Secrets}
  /\ proc = "starting"
  /\ store = {}
  /\ last = Idle
  /\ wire = <<>>
  /\ pending = {}

\* the import of app.main runs `crypto = AESCrypto()` (crypto.py line 95)
Startup ==
  /\ proc = "starting"
  /\ proc' = IF AESCrypto_init_raises(key_hash) THEN "crashed" ELSE "up"
  /\ UNCHANGED <<key_hash, store, last, wire, pending>>

\* a call of handle_encrypted_request(request_data)
HandleEncryptedRequest ==
  /\ proc = "up" /\ last.op = "idle"
  /\ \E request_data \in ClassifierInputs(key_hash) :
       \E h \in {handle_encrypted_request(key_hash.v, request_data)} :
          last' = [op |-> "handle_encrypted_request", body |-> request_data,
                   res |-> h.out, codec |-> h.codec,
                   path |-> IF h.codec > 0 THEN "decrypt" ELSE "plain"]
  /\ UNCHANGED <<key_hash, proc, store, wire, pending>>

\* a call of create_encrypted_response(data, requested and requires_encryption())
CreateEncryptedResponse ==
  /\ proc = "up" /\ last.op = "idle"
  /\ \E data \in Mappings, requested \in BOOLEAN, nonce \in Nonces :
       last' = [op |-> "create_encrypted_response", requested |-> requested,
                plain |-> data, wrapped |-> data,
                res |-> create_encrypted_response(key_hash.v, data,
                          requested /\ requires_encryption(key_hash), nonce)]
  /\ UNCHANGED <<key_hash, proc, store, wire, pending>>

\* POST /api/upload/url
UploadFromUrl ==
  /\ proc = "up" /\ last.op = "idle"
  /\ Cardinality(store) < MaxObjects
  /\ \E body \in UrlBodies(key_hash), fetched \in Fetches,
        uuid \in UuidChoices(store), nonce \in Nonces :
       \E request \in {ParseUploadUrlBody(body)} :
          IF request.exc # "none"
          THEN /\ last' = [op |-> "upload_from_url", body |-> body, path |-> "none",
                           inner |-> request, res |-> HTTPException(422, <<"Unprocessable Entity">>)]
               /\ store' = store
          ELSE \E r \in {upload_from_url(key_hash, store, request.val, fetched, uuid, nonce)} :
                 /\ last' = [op |-> "upload_from_url", body |-> body, path |-> r.path,
                             inner |-> r.inner, res |-> r.out]
                 /\ store' = r.store
  /\ \A o \in store' : o.id # <<>>
  /\ UNCHANGED <<key_hash, proc, wire, pending>>

\* POST /api/upload/direct
UploadDirect ==
  /\ proc = "up" /\ last.op = "idle"
  /\ Cardinality(store) < MaxObjects
  /\ \E request \in DirectRequests(key_hash), uuid \in UuidChoices(store), nonce \in Nonces :
       \E r \in {upload_direct(key_hash, store, request, uuid, nonce)} :
          /\ last' = [op |-> "upload_direct", request |-> request, body |-> request.fields,
                      path |-> r.path, inner |-> r.inner, res |-> r.out]
          /\ store' = r.store
  /\ \A o \in store' : o.id # <<>>
  /\ UNCHANGED <<key_hash, proc, wire, pending>>

\* GET /api/files
ListFiles ==
  /\ proc = "up" /\ last.op = "idle"
  /\ \E is_public \in {PyNone, PyBool(TRUE)}, encrypted \in {PyNone, PyBool(TRUE), PyBool(FALSE)},
        nonce \in Nonces :
       \E files \in {gcs_list_files(store, is_public)} :
          last' = [op |-> "list_files", requested |-> IsTrue(encrypted),
                   plain |-> files,
                   wrapped |-> PyDict(<< <<PyStr(S_files), files>> >>),
                   res |-> list_files(key_hash, store, is_public, encrypted, nonce)]
  /\ UNCHANGED <<key_hash, proc, store, wire, pending>>

Next ==
  \/ Startup
  \/ HandleEncryptedRequest
  \/ CreateEncryptedResponse
  \/ UploadFromUrl
  \/ UploadDirect
  \/ ListFiles
  \/ Return

Spec == Init /\ [][Next]_vars

----------------------------------------------------------------------------
(* Properties of the gateway                                               *)

\* the body is {"encrypted_payload": <str>} and nothing else
BodyEncrypted(r) ==
  /\ r.exc = "none" /\ IsDict(r.val)
  /\ Len(r.val.v) = 1 /\ DictHas(r.val, PyStr(S_encrypted_payload))
  /\ IsStr(DictGet(r.val, PyStr(S_encrypted_payload), PyNone))

\* the body has the field encrypted_payload, whatever its value
FieldPresent(body) == IsDict(body) /\ DictHas(body, PyStr(S_encrypted_payload))

\* the call failed with this HTTP status
Failed(r, status) == r.exc = "HTTPException" /\ r.status = status

\* C2: with no key material configured (AES_KEY_HASH unset or empty) the
\* process, once started, is up and serves the plaintext path, and
\* requires_encryption() is false.
C2_NoKeyDegradesToPlaintext ==
  (~Truthy(key_hash) /\ proc # "starting") =>
     (proc = "up" /\ ~requires_encryption(key_hash))

\* C3: for every request body with the field encrypted_payload,
\* handle_encrypted_request either returns a mapping or raises HTTPException
\* 400 whose detail is "Failed to decrypt payload: " and the reason; no
\* other exception and no other value comes out of it.
C3_TwoOutcomes ==
  (last.op = "handle_encrypted_request" /\ FieldPresent(last.body)) =>
    \/ last.res.exc = "none" /\ IsDict(last.res.val)
    \/ /\ Failed(last.res, 400)
       /\ Len(last.res.msg) = 2
       /\ last.res.msg[1] = "Failed to decrypt payload: "

\* an authentic envelope whose plaintext is the JSON list [1] was refused
\* with 400
C3_Witness ==
  /\ last.op = "handle_encrypted_request"
  /\ last.body = Enc(ClientEnvelope(key_hash, PyStr(J_list)))
  /\ last.res = HTTPException(400, <<"Failed to decrypt payload: ",
                                     "Decrypted payload has unexpected type">>)

C5_ResponseWrapping ==
  last.op \in {"create_encrypted_response", "list_files"} =>
    LET wanted == last.requested /\ requires_encryption(key_hash)
    IN /\ (wanted /\ KeyUsable) =>
            /\ BodyEncrypted(last.res)
            /\ LET d == decrypt_payload(key_hash.v,
                          DictGet(last.res.val, PyStr(S_encrypted_payload), PyNone))
               IN d.exc = "none" /\ DictEq(d.val, last.wrapped)
       /\ (wanted /\ ~KeyUsable) => Failed(last.res, 500)
       /\ ~wanted => last.res = Ok(last.plain)

\* an encrypted listing of a store that holds an object was returned
C5_Witness ==
  /\ last.op = "list_files" /\ last.requested
  /\ store # {}
  /\ BodyEncrypted(last.res)

\* C6: on /api/upload/direct a malformed form reaches the client as 400, an
\* oversized part as 413 and an invalid encrypted payload as 400.
C6_DistinctStatuses ==
  last.op = "upload_direct" =>
    LET ep == DictGet(last.body, PyStr(S_encrypted_payload), PyNone)
        parsed == ~last.request.malformed /\ last.request.size <= max_bytes
    IN /\ last.request.malformed => Failed(last.res, 400)
       /\ (~last.request.malformed /\ last.request.size > max_bytes) => Failed(last.res, 413)
       /\ (parsed /\ Truthy(ep) /\ handle_encrypted_request(key_hash.v, Enc(ep)).out.exc # "none")
             => Failed(last.res, 400)

\* C7: handle_encrypted_request, /api/upload/url and /api/upload/direct take
\* the decrypt path exactly when the body has the field encrypted_payload,
\* and the plaintext path exactly when it has not.
C7_UniformPresenceRule ==
  (last.op \in {"handle_encrypted_request", "upload_from_url", "upload_direct"}
     /\ last.path # "none") =>
    (last.path = "decrypt" <=> FieldPresent(last.body))

\* C8: the confirmation of an upload is encrypted exactly when the request
\* was taken through the decrypt path and key material is available.
C8_EncryptedIffDecryptPath ==
  (last.op \in {"upload_from_url", "upload_direct"} /\ last.res.exc = "none") =>
    (BodyEncrypted(last.res) <=> (last.path = "decrypt" /\ requires_encryption(key_hash)))

----------------------------------------------------------------------------
(* A session: the parties holding the secret make envelopes with           *)
(* encrypt_payload and present them to the gateway, which passes them to   *)
(* handle_encrypted_request.  An envelope stays with its receiver, who may *)
(* present it again.                                                       *)

InitWire ==
  /\ key_hash \in {PyStr(k) : k \in Secrets}
  /\ proc = "up"
  /\ store = {}
  /\ last = Idle
  /\ wire = <<>>
  /\ pending = {}

\* crypto.encrypt_payload(data), nonce being what os.urandom(12) returned
\* (line 46); the envelope goes on the wire
Send ==
  /\ last.op = "idle"
  /\ Len(wire) < MaxSent
  /\ \E data \in {M_scenario, M_empty}, nonce \in Nonces :
       \E r \in {encrypt_payload(key_hash.v, data, nonce)} :
          /\ last' = [op |-> "encrypt_payload", data |-> data, nonce |-> nonce, res |-> r]
          /\ wire' = IF r.exc # "none" THEN wire
                     ELSE Append(wire, [data |-> data, nonce |-> nonce,
                                        envelope |-> r.val, accepted |-> 0])
  /\ UNCHANGED <<key_hash, proc, store, pending>>

\* a request whose body is {"encrypted_payload": <an envelope of the wire>}:
\* handle_encrypted_request decrypts it (lines 12-16)
Receive ==
  /\ last.op = "idle"
  /\ \E i \in 1..Len(wire) :
       /\ wire[i].accepted < MaxAccepts
       /\ \E h \in {handle_encrypted_request(key_hash.v, Enc(wire[i].envelope))} :
            /\ last' = [op |-> "handle_encrypted_request", body |-> Enc(wire[i].envelope),
                        res |-> h.out, codec |-> h.codec, path |-> "decrypt"]
            /\ wire' = IF h.out.exc # "none" THEN wire
                       ELSE [wire EXCEPT ![i].accepted = @ + 1]
  /\ UNCHANGED <<key_hash, proc, store, pending>>

NextWire ==
  \/ Send
  \/ Receive
  \/ Return

SpecWire == InitWire /\ [][NextWire]_vars

\* C11: nonce uniqueness.  Of the envelopes made under the key no two were
\* made with the same 12-byte nonce; two envelopes of the same plaintext
\* are different strings, and each decrypts to its plaintext.
C11_NonceUniqueness ==
  /\ \A i, j \in 1..Len(wire) :
       i # j => /\ wire[i].nonce # wire[j].nonce
                /\ wire[i].data = wire[j].data => wire[i].envelope # wire[j].envelope
  /\ \A i \in 1..Len(wire) :
       /\ Len(wire[i].nonce) = NonceSize
       /\ decrypt_payload(key_hash.v, wire[i].envelope).exc = "none"
       /\ DictEq(decrypt_payload(key_hash.v, wire[i].envelope).val, wire[i].data)

\* C12: envelope lifecycle.  An envelope is consumed by one decrypt call: no
\* envelope has been decrypted successfully more than once.
C12_ConsumedOnce == \A i \in 1..Len(wire) : wire[i].accepted <= 1

----------------------------------------------------------------------------
(* app/utils/auth.py.  A bearer token is [signed, exp, sub]: whether its   *)
(* HS256 signature verifies under JWT_SECRET_KEY, whether its exp claim is *)
(* absent ("none"), in the past or in the future, and its sub claim (None  *)
(* when absent).  The Authorization header is [scheme, token].             *)

\* "admin"
W_admin == <<97, 100, 109, 105, 110>>
\* "sub"
S_sub == <<115, 117, 98>>
\* "username"
S_username == <<117, 115, 101, 114, 110, 97, 109, 101>>

\* security = HTTPBearer(): the credentials of a Bearer header; without the
\* header, or with another scheme, HTTPBearer raises (403, or 401 in later
\* FastAPI releases: status)
security(authorization, status) ==
  IF authorization.scheme = "Bearer" THEN Ok(authorization.token)
  ELSE HTTPException(status, <<"Not authenticated">>)

\* jwt.decode(token, JWT_SECRET_KEY, algorithms=[JWT_ALGORITHM]): the
\* signature is verified first, then the exp claim when there is one
jwt_decode(token) ==
  IF ~token.signed THEN Raise("InvalidSignatureError", "Signature verification failed")
  ELSE IF token.exp = "past" THEN Raise("ExpiredSignatureError", "Signature has expired")
  ELSE Ok(IF token.sub.t = "none" THEN PyDict(<<>>)
          ELSE PyDict(<< <<PyStr(S_sub), token.sub>> >>))

\* verify_token(token).  The second except clause names jwt.JWTError;
\* has_JWTError tells whether the installed jwt module has that attribute
\* (evaluating the clause raises AttributeError when it has not)
verify_token(token, has_JWTError) ==
  LET Except(r) ==
        IF r.exc = "none" THEN r
        ELSE IF r.exc = "ExpiredSignatureError" THEN HTTPException(401, <<"Token has expired">>)
        ELSE IF has_JWTError THEN HTTPException(401, <<"Could not validate credentials">>)
        ELSE Raise("AttributeError", "module 'jwt' has no attribute 'JWTError'")
  IN Except(jwt_decode(token))

\* get_current_user that trusts the sub claim of a token it could not verify
get_current_user_Unverified(credentials, has_JWTError) ==
  IF credentials.sub.t = "none" THEN HTTPException(401, <<"Could not validate credentials">>)
  ELSE Ok(PyDict(<< <<PyStr(S_username), credentials.sub>> >>))

\* get_current_user(credentials)
get_current_user(credentials, has_JWTError) ==
  LET User(payload) ==
        IF payload.exc # "none" THEN payload
        ELSE IF DictGet(payload.val, PyStr(S_sub), PyNone).t = "none"
        THEN HTTPException(401, <<"Could not validate credentials">>)
        ELSE Ok(PyDict(<< <<PyStr(S_username), DictGet(payload.val, PyStr(S_sub), PyNone)>> >>))
  IN User(verify_token(credentials, has_JWTError))

\* get_optional_current_user(credentials): credentials is what
\* Depends(security) gave, so never None here
get_optional_current_user(credentials, has_JWTError) ==
  LET Except(r) == IF r.exc = "HTTPException" THEN Ok(PyNone) ELSE r
  IN Except(get_current_user(credentials, has_JWTError))

----------------------------------------------------------------------------
(* app/routes/files.py : the download, rename, share and delete handlers.  *)
(* The calls of gcs_client are modelled from its interface: get and stat   *)
(* fail with FileNotFoundError, rename and toggle_share move the object,   *)
(* delete tells whether there was one.  A download gives [out, reads,      *)
(* served]: the response, the number of reads of the object store and the  *)
(* objects whose bytes or metadata the response carries.                   *)

\* gcs_client.download_file / get_file_info (file_id, is_public)
gcs_get(st, file_id, is_public) ==
  IF file_exists(st, file_id, is_public)
  THEN Ok(CHOOSE o \in st : o.id = file_id /\ o.is_public = is_public)
  ELSE Raise("FileNotFoundError", "File not found")

\* except FileNotFoundError -> 404 ; except Exception -> 500
DownloadExcept(r) ==
  IF r.exc = "none" THEN r
  ELSE IF r.exc = "FileNotFoundError" THEN HTTPException(404, <<"File not found">>)
  ELSE HTTPException(500, <<"Download failed: ", ExcStr(r)>>)

\* the try block of the download handlers, got being what the store gave:
\* the headers for HEAD, else the encrypted JSON response or the stream
DownloadGot(k, got, file_id, method, should_encrypt, nonce) ==
  IF got.exc # "none" THEN got
  ELSE IF method = "HEAD" THEN Ok([t |-> "headers", v |-> Len(got.val.data)])
  ELSE IF should_encrypt
  THEN create_encrypted_response(k.v,
         PyDict(<< <<PyStr(S_file_id), PyStr(file_id)>>,
                   <<PyStr(S_file_data), PyStr(b64encode(got.val.data))>>,
                   <<PyStr(S_size), PyInt(Len(got.val.data))>> >>), TRUE, nonce)
  ELSE Ok([t |-> "stream", v |-> got.val.data])

\* a download handler from its first statement to its response
Download(k, st, file_id, is_public, method, should_encrypt, nonce) ==
  LET Sent(got, out) ==
        [out |-> out, reads |-> 1,
         served |-> IF out.exc = "none" THEN {got.val} ELSE {}]
      Got(got) ==
        Sent(got, DownloadExcept(DownloadGot(k, got, file_id, method, should_encrypt, nonce)))
  IN Got(gcs_get(st, file_id, is_public))

\* download_private_file(file_id, request, encrypted), current_user given
download_private_file(k, st, file_id, method, encrypted, nonce) ==
  Download(k, st, file_id, FALSE, method,
           method = "GET" /\ IsTrue(encrypted) /\ requires_encryption(k), nonce)

\* download_public_file(file_id, request)
download_public_file(k, st, file_id, method, nonce) ==
  Download(k, st, file_id, TRUE, method, FALSE, nonce)

\* download_file(file_id, request, is_public, current_user)
download_file(k, st, file_id, method, is_public, current_user, nonce) ==
  IF ~is_public /\ ~Truthy(current_user)
  THEN [out |-> HTTPException(401, <<"Authentication required for private files">>),
        reads |-> 0, served |-> {}]
  ELSE Download(k, st, file_id, is_public, method, FALSE, nonce)

\* "old_file_id"
S_old_file_id == <<111, 108, 100, 95, 102, 105, 108, 101, 95, 105, 100>>
\* "new_file_id"
S_new_file_id == <<110, 101, 119, 95, 102, 105, 108, 101, 95, 105, 100>>
\* "was_public"
S_was_public == <<119, 97, 115, 95, 112, 117, 98, 108, 105, 99>>
\* "message"
S_message == <<109, 101, 115, 115, 97, 103, 101>>
\* "File "
W_File == <<70, 105, 108, 101, 32>>
\* " deleted successfully"
W_deleted == <<32, 100, 101, 108, 101, 116, 101, 100, 32, 115, 117, 99, 99, 101, 115, 115, 102, 117, 108, 108, 121>>

\* except Exception -> 500 of rename_file, toggle_share and delete_file
MutateExcept(r, what) ==
  IF r.exc = "none" THEN r ELSE HTTPException(500, <<what, ExcStr(r)>>)

\* gcs_client.rename_file(file_id, new_file_id, is_public): the object moves
\* to the new id within its partition
gcs_rename_file(st, file_id, new_file_id, is_public) ==
  StorePut({o \in st : ~(o.id = file_id /\ o.is_public = is_public)},
           [gcs_get(st, file_id, is_public).val EXCEPT !.id = new_file_id])

\* gcs_client.toggle_share(file_id, current_is_public): the object moves to
\* the other partition
gcs_toggle_share(st, file_id, current_is_public) ==
  StorePut({o \in st : ~(o.id = file_id /\ o.is_public = current_is_public)},
           [gcs_get(st, file_id, current_is_public).val EXCEPT !.is_public = ~current_is_public])

\* rename_file(file_id, request, is_public): [out, store]
rename_file(st, file_id, new_file_id, is_public) ==
  IF ~file_exists(st, file_id, is_public)
  THEN [out |-> MutateExcept(HTTPException(404, <<"File not found">>), "Rename failed: "),
        store |-> st]
  ELSE IF file_exists(st, new_file_id, is_public)
  THEN [out |-> MutateExcept(HTTPException(409, <<"Target filename already exists">>),
                             "Rename failed: "),
        store |-> st]
  ELSE [out |-> Ok(PyDict(<< <<PyStr(S_old_file_id), PyStr(file_id)>>,
                            <<PyStr(S_new_file_id), PyStr(new_file_id)>>,
                            <<PyStr(S_object_path), PyStr(ObjectPath(new_file_id, is_public))>>,
                            <<PyStr(S_is_public), PyBool(is_public)>> >>)),
        store |-> gcs_rename_file(st, file_id, new_file_id, is_public)]

\* toggle_share(file_id, current_is_public): [out, store]
toggle_share(st, file_id, current_is_public) ==
  IF ~file_exists(st, file_id, current_is_public)
  THEN [out |-> MutateExcept(HTTPException(404, <<"File not found">>), "Share toggle failed: "),
        store |-> st]
  ELSE [out |-> Ok(PyDict(<< <<PyStr(S_file_id), PyStr(file_id)>>,
                            <<PyStr(S_object_path),
                              PyStr(ObjectPath(file_id, ~current_is_public))>>,
                            <<PyStr(S_was_public), PyBool(current_is_public)>>,
                            <<PyStr(S_is_public), PyBool(~current_is_public)>> >>)),
        store |-> gcs_toggle_share(st, file_id, current_is_public)]

\* delete_file(file_id, is_public): [out, store]
delete_file(st, file_id, is_public) ==
  IF ~file_exists(st, file_id, is_public)
  THEN [out |-> MutateExcept(HTTPException(404, <<"File not found">>), "Delete failed: "),
        store |-> st]
  ELSE [out |-> Ok(PyDict(<< <<PyStr(S_message), PyStr(W_File \o file_id \o W_deleted)>> >>)),
        store |-> {o \in st : ~(o.id = file_id /\ o.is_public = is_public)}]

----------------------------------------------------------------------------
(* Downloads: the gateway serves uploads and downloads, one request at a   *)
(* time, to clients with and without a valid token.                        *)

\* a token of create_access_token, within its hour
T_valid == [signed |-> TRUE, exp |-> "future", sub |-> PyStr(W_admin)]
\* a token signed with JWT_SECRET_KEY that has no exp claim
T_noexp == [signed |-> TRUE, exp |-> "none", sub |-> PyStr(W_admin)]
\* a token of create_access_token after its hour
T_expired == [signed |-> TRUE, exp |-> "past", sub |-> PyStr(W_admin)]
\* a token signed with another secret
T_forged == [signed |-> FALSE, exp |-> "future", sub |-> PyStr(W_admin)]
\* a token signed with JWT_SECRET_KEY that has no sub claim
T_nosub == [signed |-> TRUE, exp |-> "future", sub |-> PyNone]

\* the Authorization headers of the requests
Headers ==
  {[scheme |-> "none", token |-> T_forged], [scheme |-> "Basic", token |-> T_valid]}
    \cup {[scheme |-> "Bearer", token |-> t] :
            t \in {T_valid, T_noexp, T_expired, T_forged, T_nosub}}

\* the file ids the requests name
FileIds == {Id_a, Id_b}

\* current_user: dict = Depends(get_current_user)
DependsCurrentUser(authorization, status, has_JWTError) ==
  LET User(credentials) ==
        IF credentials.exc # "none" THEN credentials
        ELSE get_current_user(credentials.val, has_JWTError)
  IN User(security(authorization, status))

\* current_user: Optional[dict] = Depends(get_optional_current_user)
DependsOptionalUser(authorization, status, has_JWTError) ==
  LET User(credentials) ==
        IF credentials.exc # "none" THEN credentials
        ELSE get_optional_current_user(credentials.val, has_JWTError)
  IN User(security(authorization, status))

\* a dependency that raised: the handler is not called
NotCalled(r) == [out |-> r, reads |-> 0, served |-> {}]

InitAuth ==
  /\ key_hash \in {PyStr(K_zero64), PyStr(K_pass)}
  /\ proc = "up"
  /\ store = {}
  /\ last = Idle
  /\ wire = <<>>
  /\ pending = {}

\* GET or HEAD /api/download/private/{file_id}
DownloadPrivate ==
  /\ proc = "up" /\ last.op = "idle"
  /\ \E authorization \in Headers, status \in {401, 403}, has_JWTError \in BOOLEAN,
        file_id \in FileIds, method \in {"GET", "HEAD"},
        encrypted \in {PyNone, PyBool(TRUE)}, nonce \in Nonces :
       \E current_user \in {DependsCurrentUser(authorization, status, has_JWTError)} :
         \E r \in {IF current_user.exc # "none" THEN NotCalled(current_user)
                    ELSE download_private_file(key_hash, store, file_id, method,
                                               encrypted, nonce)} :
            last' = [op |-> "download_private_file", authorization |-> authorization,
                     file_id |-> file_id, is_public |-> FALSE, method |-> method,
                     res |-> r.out, reads |-> r.reads, served |-> r.served]
  /\ UNCHANGED <<key_hash, proc, store, wire, pending>>

\* GET or HEAD /api/download/public/{file_id}: no dependency
DownloadPublic ==
  /\ proc = "up" /\ last.op = "idle"
  /\ \E authorization \in Headers, file_id \in FileIds, method \in {"GET", "HEAD"},
        nonce \in Nonces :
       \E r \in {download_public_file(key_hash, store, file_id, method, nonce)} :
          last' = [op |-> "download_public_file", authorization |-> authorization,
                   file_id |-> file_id, is_public |-> TRUE, method |-> method,
                   res |-> r.out, reads |-> r.reads, served |-> r.served]
  /\ UNCHANGED <<key_hash, proc, store, wire, pending>>

\* GET or HEAD /api/download/{file_id}?is_public=... (deprecated)
DownloadFile ==
  /\ proc = "up" /\ last.op = "idle"
  /\ \E authorization \in Headers, status \in {401, 403}, has_JWTError \in BOOLEAN,
        file_id \in FileIds, method \in {"GET", "HEAD"}, is_public \in BOOLEAN,
        nonce \in Nonces :
       \E current_user \in {DependsOptionalUser(authorization, status, has_JWTError)} :
         \E r \in {IF current_user.exc # "none" THEN NotCalled(current_user)
                    ELSE download_file(key_hash, store, file_id, method, is_public,
                                       current_user.val, nonce)} :
            last' = [op |-> "download_file", authorization |-> authorization,
                     file_id |-> file_id, is_public |-> is_public, method |-> method,
                     res |-> r.out, reads |-> r.reads, served |-> r.served]
  /\ UNCHANGED <<key_hash, proc, store, wire, pending>>

NextAuth ==
  \/ UploadFromUrl
  \/ UploadDirect
  \/ DownloadPrivate
  \/ DownloadPublic
  \/ DownloadFile
  \/ Return

SpecAuth == InitAuth /\ [][NextAuth]_vars

\* the header carries a bearer token that verifies: signed with
\* JWT_SECRET_KEY, not expired, naming a user
ValidBearer(authorization) ==
  /\ authorization.scheme = "Bearer"
  /\ authorization.token.signed
  /\ authorization.token.exp # "past"
  /\ authorization.token.sub.t # "none"

\* C13: private-partition access requires authentication.  On the download
\* routes, GET and HEAD alike, a response carries bytes or metadata of a
\* private object only when the request had a valid bearer token, and a
\* request for a private file without one is rejected with no read of the
\* object store.
C13_PrivateRequiresAuth ==
  last.op \in {"download_private_file", "download_public_file", "download_file"} =>
    /\ (\E o \in last.served : ~o.is_public) => ValidBearer(last.authorization)
    /\ (~last.is_public /\ ~ValidBearer(last.authorization)) =>
          (last.res.exc # "none" /\ last.reads = 0 /\ last.served = {})

\* the private a.txt is in the store, and a request for it with an expired
\* token on the deprecated route was refused unread
C13_Witness ==
  /\ last.op = "download_file" /\ ~last.is_public /\ last.file_id = Id_a
  /\ last.authorization = [scheme |-> "Bearer", token |-> T_expired]
  /\ \E o \in store : o.id = Id_a /\ ~o.is_public
  /\ last.res.exc = "HTTPException" /\ last.res.status = 401
  /\ last.reads = 0

----------------------------------------------------------------------------
(* The store under concurrent requests.  The handlers are coroutines of    *)
(* one event loop: a handler runs without interruption from one await to   *)
(* the next.  upload_direct awaits parse_large_form (line 93) and          *)
(* file.read() (line 123); upload_from_url, rename_file, toggle_share and  *)
(* delete_file have no await.  pending holds the suspended upload_direct   *)
(* coroutines as [request, at, first]: the request, the await it is at and *)
(* whether the store was empty when the request arrived.  The clients are  *)
(* authenticated.                                                          *)

\* b"XYZ"
D_xyz == <<88, 89, 90>>

\* the multipart requests in flight: b.txt, another b.txt for the public
\* partition, an envelope of a public a.txt
FileRequests(k) ==
  {[malformed |-> FALSE, size |-> 1, fields |-> f] :
     f \in { PyDict(<< <<PyStr(S_file), Upload(Id_b, D_abc)>> >>),
             PyDict(<< <<PyStr(S_file), Upload(Id_b, D_xyz)>>,
                       <<PyStr(S_is_public), PyStr(S_true)>> >>),
             Enc(ClientEnvelope(k, P_file)) }}

\* the JSON bodies posted to /api/upload/url meanwhile: a.txt from its url,
\* a public a.txt and a b.txt named by file_id
FileUrlBodies ==
  { PyDict(<< <<PyStr(S_url), PyStr(Url_a)>> >>),
    PyDict(<< <<PyStr(S_url), PyStr(Url_dir)>>, <<PyStr(S_file_id), PyStr(Id_a)>>,
              <<PyStr(S_is_public), PyBool(TRUE)>> >>),
    PyDict(<< <<PyStr(S_url), PyStr(Url_a)>>, <<PyStr(S_file_id), PyStr(Id_b)>> >>) }

\* upload_direct comes to `await file.read()` (lines 93-123)
ReachesFileRead(request) ==
  LET Plain(form_data) ==
        /\ form_data.exc = "none"
        /\ ~Truthy(DictGet(form_data.val, PyStr(S_encrypted_payload), PyNone))
        /\ Truthy(DictGet(form_data.val, PyStr(S_file), PyNone))
  IN Plain(parse_large_form(request))

InitFiles ==
  /\ key_hash = PyStr(K_zero64)
  /\ proc = "up"
  /\ store = {}
  /\ last = Idle
  /\ wire = <<>>
  /\ pending = {}

\* POST /api/upload/url while uploads are in flight: the handler has no
\* await and runs from its first statement to its response
UploadFromUrlMeanwhile ==
  /\ proc = "up" /\ last.op = "idle"
  /\ Cardinality(store) < MaxObjects
  /\ \E body \in FileUrlBodies, fetched \in Fetches,
        uuid \in UuidChoices(store), nonce \in Nonces :
       \E request \in {ParseUploadUrlBody(body)} :
         \E r \in {upload_from_url(key_hash, store, request.val, fetched, uuid, nonce)} :
            /\ last' = [op |-> "upload_from_url", body |-> body, path |-> r.path,
                        inner |-> r.inner, res |-> r.out]
            /\ store' = r.store
  /\ UNCHANGED <<key_hash, proc, wire, pending>>

\* POST /api/upload/direct arrives: the handler starts and is suspended at
\* `await parse_large_form(request)`
UploadDirectArrive ==
  /\ proc = "up" /\ last.op = "idle"
  /\ Cardinality(pending) < MaxPending
  /\ \E request \in FileRequests(key_hash) :
       pending' = pending \cup {[request |-> request, at |-> "parse",
                                 first |-> store = {}]}
  /\ pending' # pending
  /\ UNCHANGED <<key_hash, proc, store, last, wire>>

\* a handler resumes with the parsed form and is suspended at
\* `await file.read()`
UploadDirectRead ==
  /\ proc = "up" /\ last.op = "idle"
  /\ \E p \in pending :
       /\ p.at = "parse"
       /\ ReachesFileRead(p.request)
       /\ pending' = (pending \ {p}) \cup {[p EXCEPT !.at = "read"]}
  /\ UNCHANGED <<key_hash, proc, store, last, wire>>

\* a handler resumes and runs from its last await to its response
UploadDirectFinish ==
  /\ proc = "up" /\ last.op = "idle"
  /\ Cardinality(store) < MaxObjects
  /\ \E p \in pending, uuid \in UuidChoices(store), nonce \in Nonces :
       /\ p.at = "read" \/ ~ReachesFileRead(p.request)
       /\ \E r \in {upload_direct(key_hash, store, p.request, uuid, nonce)} :
            /\ last' = [op |-> "upload_direct", request |-> p.request,
                        body |-> p.request.fields, path |-> r.path, inner |-> r.inner,
                        res |-> r.out, first |-> p.first]
            /\ store' = r.store
       /\ pending' = pending \ {p}
  /\ \A o \in store' : o.id # <<>>
  /\ UNCHANGED <<key_hash, proc, wire>>

\* POST /api/rename/{file_id}?is_public=...
RenameFile ==
  /\ proc = "up" /\ last.op = "idle"
  /\ \E file_id \in FileIds, new_file_id \in FileIds, is_public \in BOOLEAN :
       \E r \in {rename_file(store, file_id, new_file_id, is_public)} :
          /\ last' = [op |-> "rename_file", file_id |-> file_id,
                      new_file_id |-> new_file_id, is_public |-> is_public, res |-> r.out]
          /\ store' = r.store
  /\ UNCHANGED <<key_hash, proc, wire, pending>>

\* POST /api/share/{file_id}?current_is_public=...
ToggleShare ==
  /\ proc = "up" /\ last.op = "idle"
  /\ \E file_id \in FileIds, current_is_public \in BOOLEAN :
       \E r \in {toggle_share(store, file_id, current_is_public)} :
          /\ last' = [op |-> "toggle_share", file_id |-> file_id,
                      is_public |-> current_is_public, res |-> r.out]
          /\ store' = r.store
  /\ UNCHANGED <<key_hash, proc, wire, pending>>

\* DELETE /api/files/{file_id}?is_public=...
DeleteFile ==
  /\ proc = "up" /\ last.op = "idle"
  /\ \E file_id \in FileIds, is_public \in BOOLEAN :
       \E r \in {delete_file(store, file_id, is_public)} :
          /\ last' = [op |-> "delete_file", file_id |-> file_id,
                      is_public |-> is_public, res |-> r.out]
          /\ store' = r.store
  /\ UNCHANGED <<key_hash, proc, wire, pending>>

NextFiles ==
  \/ UploadFromUrlMeanwhile
  \/ UploadDirectArrive
  \/ UploadDirectRead
  \/ UploadDirectFinish
  \/ RenameFile
  \/ ToggleShare
  \/ DeleteFile
  \/ Return

SpecFiles == InitFiles /\ [][NextFiles]_vars

\* C14: uploads never overwrite.  In every step in which an upload handler
\* gives its response, whatever other uploads are in flight, every object
\* of the store stays as it was, an object that is new has an id that was
\* in neither partition, and the upload succeeds only by storing such an
\* object: an upload whose id exists is rejected and puts nothing.
C14_UploadsNeverOverwrite ==
  [][(last.op = "idle" /\ last'.op \in {"upload_from_url", "upload_direct"}) =>
       /\ \A o \in store : o \in store'
       /\ \A n \in store' \ store : \A o \in store : o.id # n.id
       /\ last'.res.exc = "none" => Cardinality(store' \ store) = 1]_vars

\* an upload of b.txt lost a race: the store was empty when it arrived, there
\* is a b.txt when it resumes, it is answered "File already exists" and the
\* b.txt of the other upload is as it was stored
C14_Witness ==
  /\ last.op = "upload_direct"
  /\ last.first
  /\ last.inner = HTTPException(409, <<"File already exists">>)
  /\ last.res.exc = "HTTPException"
  /\ last.request.fields.v[1] = <<PyStr(S_file), Upload(Id_b, D_xyz)>>
  /\ \E o \in store : o.id = Id_b /\ o.data = D_abc

\* C15: file ids are unique across the partitions: no id is in the public
\* and in the private partition at the same time.
C15_IdsUniqueAcrossPartitions ==
  \A o1 \in store, o2 \in store : o1.id = o2.id => o1.is_public = o2.is_public


====
